---- MODULE Spec2Model ----
(***************************************************************************)
(* Token lifecycle of the device-profiling agent (src/main.py, mirrored in *)
(* src/app/auth_handler.py and src/app/profile_handler.py): one agent run  *)
(* new_profile(send) -> get_access_token() -> send_profile(token, profile) *)
(* against a credential store (keyring) and a remote service whose answers *)
(* are chosen nondeterministically.                                        *)
(***************************************************************************)
EXTENDS Integers, Sequences, FiniteSets, TLC

(* ---------------------------- bounds ----------------------------------- *)

\* number of distinct non-empty token strings the service can hand out
NumTokens == 2

\* depth of nested send_profile frames the interpreter allows before it
\* raises RecursionError (scaled-down sys.getrecursionlimit())
MaxDepth == 3

(* ---------------------------- values ----------------------------------- *)

\* Python None: what keyring.get_password returns for an unset secret
None == -1

\* the empty string "" (falsy, like None)
EmptyStr == 0

\* a key that is absent from the JSON response (subscripting raises KeyError)
Missing == -2

Tokens == 1..NumTokens

TokenTypes == {"AccessToken", "RefreshToken"}

\* what the keyring can hold under one (service, token_type) entry
StoreValues == {None, EmptyStr} \cup Tokens

\* what a 2xx login/refresh response can carry under one key: a token
\* string, or nothing at all (the key is absent from the document)
FieldValues == {Missing} \cup Tokens

\* json.load(response) of the login and refresh endpoints
Responses == [access_token : FieldValues, refresh_token : FieldValues]

\* answers of the profile endpoint to one POST: 2xx, HTTPError 401,
\* HTTPError with another code, URLError/transport failure
PostAnswers == {"ok", "http401", "httpOther", "transport"}

NoResponse == [access_token |-> Missing, refresh_token |-> Missing]

NoCalls ==
    [posts |-> 0, refreshes |-> 0, logins |-> 0, prompts |-> 0,
     gets |-> 0, sets |-> 0]

VARIABLES
    pc,             \* position of the run in new_profile / get_access_token / send_profile
    args,           \* argparse result: [send, silent]
    store,          \* keyring contents: token_type -> value (None = unset)
    access_token,   \* get_access_token's local, then send_profile's parameter
    refresh_token,  \* send_profile's local read on a 401
    auth_response,  \* the login / refresh response being processed
    depth,          \* number of send_profile frames below the current one
    written,        \* the profile file has been written by write_profile
    result,         \* new_profile's return value: "none" (running), "profile", "empty"
    error,          \* the exception that ended the run, "none" otherwise
    spState,        \* send_profile: "idle", "running", "accepted", "failed"
    calls,          \* number of calls made in this run, per kind
    lastGet,        \* the latest get call: <<type, ok>> (ok = keyring did not raise)
    setLog,         \* set calls made since the last login/refresh returned: <<type, value, ok>>
    postLog,        \* bearer token carried by each POST, in order
    refreshLog,     \* access_token field of each successful refresh response, in order
    seen401,        \* number of times the submission entered Rejected401
    lastAnswer,     \* the profile endpoint's answer to the latest POST
    keyPrompt,      \* __main__ asked for a key press (msvcrt.getch) before exiting
    exit_status,    \* exit status of the process, None while it runs
    \* -- the request built by send_profile (SerSpec) --
    ser_pc,         \* position in send_profile: "post", "retry", "returned"
    profile,        \* the profile dict, as its (key, value) items in insertion order
    ser_token,      \* send_profile's access_token parameter
    ser_depth,      \* number of send_profile frames below the current one
    ser_call,       \* number of top-level send_profile calls started
    bodies,         \* request body of each POST, in order
    auths,          \* bearer tokens the POSTs carried
    \* -- the two keyring keying schemes side by side (KeySpec) --
    keyring,        \* the credential manager: (service, username) -> secret
    got_main,       \* what main.py's get returned in the latest call
    got_app,        \* what app/auth_handler.py's get returned in the latest call
    key_call,       \* the latest call, made through both variants: <<op, type, token, ok>>
    \* -- the background service of prospectservice.py (SvcSpec) --
    w_pc,           \* worker thread: position in SvcDoRun / run / profile_device
    c_pc,           \* control thread: position in SvcStop
    running,        \* ProspectService.running: "unset" (no such attribute yet), "True", "False"
    svc_status,     \* the status last given to ReportServiceStatus
    stop_called,    \* stop() has been executed
    stop_in_loop,   \* stop() was executed while run() was in its loop
    cycles_after_stop, \* profile_device calls begun after stop(), counted up to MaxCounted
    cycle_posts,    \* POSTs made in the current cycle
    svc_answer      \* outcome of the latest POST of the service

\* the variables of one agent run
agent == <<pc, args, store, access_token, refresh_token, auth_response, depth,
           written, result, error, spState, calls, lastGet, setLog, postLog, refreshLog, seen401,
           lastAnswer, keyPrompt, exit_status>>

serVars == <<ser_pc, profile, ser_token, ser_depth, ser_call, bodies, auths>>

keyVars == <<keyring, got_main, got_app, key_call>>

svcVars == <<w_pc, c_pc, running, svc_status, stop_called, stop_in_loop,
             cycles_after_stop, cycle_posts, svc_answer>>

\* what an agent run leaves alone
offstage == <<serVars, keyVars, svcVars>>

vars == <<agent, offstage>>

locals == <<access_token, refresh_token, auth_response>>
history == <<calls, lastGet, setLog, postLog, refreshLog, seen401, lastAnswer>>

(* ------------------------- pure helpers -------------------------------- *)

\* mutant of Truthy: the test `is None` in place of `not`, which lets the
\* empty string pass for a token
Truthy_NotNone(v) == v # None

\* Python truthiness of a token value: `if not access_token`
Truthy(v) == v \in Tokens

\* mutant of get_token_from_credential_manager: the lookup ignores
\* token_type and always reads the RefreshToken entry
get_token_WrongEntry(token_type, ok) ==
    IF ok THEN store["RefreshToken"] ELSE None

\* mutant of get_token_from_credential_manager: the except branch returns
\* "" in place of None
get_token_EmptyOnError(token_type, ok) ==
    IF ok THEN store[token_type] ELSE EmptyStr

\* keyring.get_password inside try/except: the stored value, or None when
\* the keyring raised (ok = FALSE)
get_token_from_credential_manager(token_type, ok) ==
    IF ok THEN store[token_type] ELSE None

\* mutant of set_token_in_credential_manager: both token types are written
\* to one shared keyring entry, so a write of one replaces the other
set_token_SharedEntry(token_type, token, ok) ==
    IF ok THEN [t \in TokenTypes |-> token] ELSE store

\* mutant of set_token_in_credential_manager: a failed write leaves the
\* entry deleted
set_token_DeleteOnError(token_type, token, ok) ==
    IF ok THEN [store EXCEPT ![token_type] = token]
          ELSE [store EXCEPT ![token_type] = None]

\* keyring.set_password inside try/except: the store after the call; a
\* keyring failure (ok = FALSE) is swallowed and leaves the store as it was
set_token_in_credential_manager(token_type, token, ok) ==
    IF ok THEN [store EXCEPT ![token_type] = token] ELSE store

Count(kind) == [calls EXCEPT ![kind] = @ + 1]

(* ---------------------------- Init ------------------------------------- *)

\* no agent run has been started
AgentIdle ==
    /\ pc = "np_get_profile"
    /\ args = [send |-> FALSE, silent |-> TRUE]
    /\ store = [t \in TokenTypes |-> None]
    /\ access_token = None
    /\ refresh_token = None
    /\ auth_response = NoResponse
    /\ depth = 0
    /\ written = FALSE
    /\ result = "none"
    /\ error = "none"
    /\ spState = "idle"
    /\ calls = NoCalls
    /\ lastGet = <<"none", TRUE>>
    /\ setLog = <<>>
    /\ postLog = <<>>
    /\ refreshLog = <<>>
    /\ seen401 = 0
    /\ lastAnswer = "none"
    /\ keyPrompt = FALSE
    /\ exit_status = None

\* the keyring is not looked at entry by entry
KeyIdle ==
    /\ keyring = <<>>
    /\ got_main = None
    /\ got_app = None
    /\ key_call = <<"none", "none", None, TRUE>>

\* the service has not been started
SvcIdle ==
    /\ w_pc = "start"
    /\ c_pc = "idle"
    /\ running = "unset"
    /\ svc_status = "none"
    /\ stop_called = FALSE
    /\ stop_in_loop = FALSE
    /\ cycles_after_stop = 0
    /\ cycle_posts = 0
    /\ svc_answer = "none"

\* no request is being built
SerIdle ==
    /\ ser_pc = "returned"
    /\ profile = <<>>
    /\ ser_token = None
    /\ ser_depth = 0
    /\ ser_call = 0
    /\ bodies = <<>>
    /\ auths = {}

Init ==
    /\ pc = "np_get_profile"
    /\ args \in [send : BOOLEAN, silent : BOOLEAN]
    /\ store \in [TokenTypes -> StoreValues]
    /\ access_token = None
    /\ refresh_token = None
    /\ auth_response = NoResponse
    /\ depth = 0
    /\ written = FALSE
    /\ result = "none"
    /\ error = "none"
    /\ spState = "idle"
    /\ calls = NoCalls
    /\ lastGet = <<"none", TRUE>>
    /\ setLog = <<>>
    /\ postLog = <<>>
    /\ refreshLog = <<>>
    /\ seen401 = 0
    /\ lastAnswer = "none"
    /\ keyPrompt = FALSE
    /\ exit_status = None
    /\ SerIdle
    /\ KeyIdle
    /\ SvcIdle

(* ------------------- exceptions and returns ---------------------------- *)

\* mutant of Raise: new_profile has no except clause and the exception
\* leaves it
Raise_Uncaught(err) ==
    /\ pc' = "done"
    /\ result' = "raised"
    /\ error' = err
    /\ spState' = IF spState = "running" THEN "failed" ELSE spState

\* an exception leaves get_access_token / send_profile and is caught by
\* new_profile's `except Exception`, which returns {}
Raise(err) ==
    /\ pc' = "done"
    /\ result' = "empty"
    /\ error' = err
    /\ spState' = IF spState = "running" THEN "failed" ELSE spState

(* ----------------------- new_profile ----------------------------------- *)

\* profile = get_profile(): the collector either returns the document or raises
GetProfile ==
    /\ pc = "np_get_profile"
    /\ \E ok \in BOOLEAN :
          IF ok
          THEN /\ pc' = "np_write_profile"
               /\ UNCHANGED <<result, error, spState>>
          ELSE Raise("CollectError")
    /\ UNCHANGED <<offstage, args, exit_status, keyPrompt, store, locals, depth, written, history>>

\* mutant of WriteProfile: the submission is started whatever --send says
WriteProfile_AlwaysSend ==
    /\ pc = "np_write_profile"
    /\ \/ /\ written' = FALSE
          /\ Raise("WriteError")
       \/ /\ \E ok \in BOOLEAN : written' = ok
          /\ pc' = "gat_get"
          /\ UNCHANGED <<result, error, spState>>
    /\ UNCHANGED <<offstage, args, exit_status, keyPrompt, store, locals, depth, history>>

\* write_profile(profile): building the file name and os.mkdir are outside
\* its try and raise to new_profile; a failing file write is swallowed;
\* then `if send_to_service`
WriteProfile ==
    /\ pc = "np_write_profile"
    /\ \/ /\ written' = FALSE
          /\ Raise("WriteError")
       \/ /\ \E ok \in BOOLEAN : written' = ok
          /\ IF args.send
             THEN /\ pc' = "gat_get"
                  /\ UNCHANGED result
             ELSE /\ pc' = "done"
                  /\ result' = "profile"
          /\ UNCHANGED <<error, spState>>
    /\ UNCHANGED <<offstage, args, exit_status, keyPrompt, store, locals, depth, history>>

(* --------------------- get_access_token -------------------------------- *)

\* access_token = get_token_from_credential_manager("AccessToken");
\* `if not access_token` decides between the cached token and a login
GatGet ==
    /\ pc = "gat_get"
    /\ \E ok \in BOOLEAN :
          LET v == get_token_from_credential_manager("AccessToken", ok) IN
          /\ access_token' = v
          /\ lastGet' = <<"AccessToken", ok>>
          /\ IF Truthy(v)
             THEN /\ pc' = "sp_post"
                  /\ spState' = "running"
             ELSE /\ pc' = "gat_prompt"
                  /\ UNCHANGED spState
    /\ calls' = Count("gets")
    /\ UNCHANGED <<offstage, args, exit_status, keyPrompt, store, refresh_token, auth_response, depth,
                   written, result, error, setLog, postLog, refreshLog,
                   seen401, lastAnswer>>

\* input("Enter your username: ") and getpass.getpass(...)
GatPrompt ==
    /\ pc = "gat_prompt"
    /\ pc' = "gat_login"
    /\ calls' = Count("prompts")
    /\ UNCHANGED <<offstage, args, exit_status, keyPrompt, store, locals, depth, written, result, error,
                   spState, lastGet, setLog, postLog, refreshLog, seen401, lastAnswer>>

\* auth_response = authenticate_user(username, password): the login call
\* returns the decoded response or re-raises what urlopen / json.load raised
GatLogin ==
    /\ pc = "gat_login"
    /\ calls' = Count("logins")
    /\ \/ /\ Raise("LoginFailed")
          /\ UNCHANGED <<auth_response, setLog>>
       \/ \E r \in Responses :
             /\ auth_response' = r
             /\ setLog' = <<>>
             /\ pc' = "gat_set_at"
             /\ UNCHANGED <<result, error, spState>>
    /\ UNCHANGED <<offstage, args, exit_status, keyPrompt, store, access_token, refresh_token, depth,
                   written, lastGet, postLog, refreshLog, seen401, lastAnswer>>

\* set_token_in_credential_manager("AccessToken", auth_response['access_token'])
GatSetAccess ==
    /\ pc = "gat_set_at"
    /\ IF auth_response.access_token = Missing
       THEN /\ Raise("KeyError")
            /\ UNCHANGED <<store, calls, setLog>>
       ELSE /\ \E ok \in BOOLEAN :
                  /\ store' = set_token_in_credential_manager(
                                  "AccessToken", auth_response.access_token, ok)
                  /\ setLog' = Append(setLog,
                                  <<"AccessToken", auth_response.access_token, ok>>)
            /\ calls' = Count("sets")
            /\ pc' = "gat_set_rt"
            /\ UNCHANGED <<result, error, spState>>
    /\ UNCHANGED <<offstage, args, exit_status, keyPrompt, locals, depth, written, lastGet, postLog,
                   refreshLog, seen401, lastAnswer>>

\* mutant of GatSetRefresh: get_access_token returns the refresh token of
\* the login response in place of its access token
GatSetRefresh_ReturnsRefresh ==
    /\ pc = "gat_set_rt"
    /\ IF auth_response.refresh_token = Missing
       THEN /\ Raise("KeyError")
            /\ UNCHANGED <<store, calls, setLog, access_token>>
       ELSE /\ \E ok \in BOOLEAN :
                  /\ store' = set_token_in_credential_manager(
                                  "RefreshToken", auth_response.refresh_token, ok)
                  /\ setLog' = Append(setLog,
                                  <<"RefreshToken", auth_response.refresh_token, ok>>)
            /\ calls' = Count("sets")
            /\ access_token' = auth_response.refresh_token
            /\ pc' = "sp_post"
            /\ spState' = "running"
            /\ UNCHANGED <<result, error>>
    /\ UNCHANGED <<offstage, args, exit_status, keyPrompt, refresh_token, auth_response, depth, written,
                   lastGet, postLog, refreshLog, seen401, lastAnswer>>

\* set_token_in_credential_manager("RefreshToken", auth_response['refresh_token']);
\* access_token = auth_response['access_token']; return access_token;
\* new_profile then calls send_profile(access_token, profile)
GatSetRefresh ==
    /\ pc = "gat_set_rt"
    /\ IF auth_response.refresh_token = Missing
       THEN /\ Raise("KeyError")
            /\ UNCHANGED <<store, calls, setLog, access_token>>
       ELSE /\ \E ok \in BOOLEAN :
                  /\ store' = set_token_in_credential_manager(
                                  "RefreshToken", auth_response.refresh_token, ok)
                  /\ setLog' = Append(setLog,
                                  <<"RefreshToken", auth_response.refresh_token, ok>>)
            /\ calls' = Count("sets")
            /\ access_token' = auth_response.access_token
            /\ pc' = "sp_post"
            /\ spState' = "running"
            /\ UNCHANGED <<result, error>>
    /\ UNCHANGED <<offstage, args, exit_status, keyPrompt, refresh_token, auth_response, depth, written,
                   lastGet, postLog, refreshLog, seen401, lastAnswer>>

(* ------------------------ send_profile --------------------------------- *)

\* mutant of SpPost: the handler does not test e.code, so every HTTPError
\* is treated as an expired token
SpPost_AnyHttpError ==
    /\ pc = "sp_post"
    /\ calls' = Count("posts")
    /\ postLog' = Append(postLog, access_token)
    /\ \E answer \in PostAnswers :
          /\ lastAnswer' = answer
          /\ CASE answer = "ok" ->
                     /\ pc' = "done"
                     /\ result' = "profile"
                     /\ spState' = "accepted"
                     /\ UNCHANGED <<error, seen401>>
               [] answer \in {"http401", "httpOther"} ->
                     /\ pc' = "sp_401"
                     /\ seen401' = seen401 + 1
                     /\ UNCHANGED <<result, error, spState>>
               [] answer = "transport" ->
                     /\ Raise("URLError")
                     /\ UNCHANGED <<seen401>>
    /\ UNCHANGED <<offstage, args, exit_status, keyPrompt, store, locals, depth, written, lastGet, setLog,
                   refreshLog>>

\* urllib.request.urlopen(profile_request, profile_data) with the header
\* Authorization: Bearer <access_token>, and the dispatch on its outcome
SpPost ==
    /\ pc = "sp_post"
    /\ calls' = Count("posts")
    /\ postLog' = Append(postLog, access_token)
    /\ \E answer \in PostAnswers :
          /\ lastAnswer' = answer
          /\ CASE answer = "ok" ->
                     /\ pc' = "done"
                     /\ result' = "profile"
                     /\ spState' = "accepted"
                     /\ UNCHANGED <<error, seen401>>
               [] answer = "http401" ->
                     /\ pc' = "sp_401"
                     /\ seen401' = seen401 + 1
                     /\ UNCHANGED <<result, error, spState>>
               [] answer = "httpOther" ->
                     /\ Raise("HTTPError")
                     /\ UNCHANGED <<seen401>>
               [] answer = "transport" ->
                     /\ Raise("URLError")
                     /\ UNCHANGED <<seen401>>
    /\ UNCHANGED <<offstage, args, exit_status, keyPrompt, store, locals, depth, written, lastGet, setLog,
                   refreshLog>>

\* mutant of Sp401: without a refresh token the handler falls back to the
\* interactive login
Sp401_FallsBackToLogin ==
    /\ pc = "sp_401"
    /\ calls' = Count("gets")
    /\ \E ok \in BOOLEAN :
          LET v == get_token_from_credential_manager("RefreshToken", ok) IN
          /\ refresh_token' = v
          /\ lastGet' = <<"RefreshToken", ok>>
          /\ pc' = IF Truthy(v) THEN "sp_refresh" ELSE "gat_prompt"
          /\ UNCHANGED <<result, error, spState>>
    /\ UNCHANGED <<offstage, args, exit_status, keyPrompt, store, access_token, auth_response, depth,
                   written, setLog, postLog, refreshLog, seen401, lastAnswer>>

\* refresh_token = get_token_from_credential_manager("RefreshToken");
\* `if not refresh_token: raise` re-raises the 401
Sp401 ==
    /\ pc = "sp_401"
    /\ calls' = Count("gets")
    /\ \E ok \in BOOLEAN :
          LET v == get_token_from_credential_manager("RefreshToken", ok) IN
          /\ refresh_token' = v
          /\ lastGet' = <<"RefreshToken", ok>>
          /\ IF Truthy(v)
             THEN /\ pc' = "sp_refresh"
                  /\ UNCHANGED <<result, error, spState>>
             ELSE Raise("HTTPError401")
    /\ UNCHANGED <<offstage, args, exit_status, keyPrompt, store, access_token, auth_response, depth,
                   written, setLog, postLog, refreshLog, seen401, lastAnswer>>

\* mutant of SpRefresh: a failed refresh is swallowed and the POST is
\* retried all the same
SpRefresh_SwallowsFailure ==
    /\ pc = "sp_refresh"
    /\ calls' = Count("refreshes")
    /\ \/ /\ pc' = "sp_retry"
          /\ UNCHANGED <<result, error, spState, auth_response, setLog, refreshLog>>
       \/ \E r \in Responses :
             /\ auth_response' = r
             /\ setLog' = <<>>
             /\ refreshLog' = Append(refreshLog, r.access_token)
             /\ pc' = "sp_set_at"
             /\ UNCHANGED <<result, error, spState>>
    /\ UNCHANGED <<offstage, args, exit_status, keyPrompt, store, access_token, refresh_token, depth,
                   written, lastGet, postLog, seen401, lastAnswer>>

\* auth_response = refresh_access_token(refresh_token)
SpRefresh ==
    /\ pc = "sp_refresh"
    /\ calls' = Count("refreshes")
    /\ \/ /\ Raise("RefreshFailed")
          /\ UNCHANGED <<auth_response, setLog, refreshLog>>
       \/ \E r \in Responses :
             /\ auth_response' = r
             /\ setLog' = <<>>
             /\ refreshLog' = Append(refreshLog, r.access_token)
             /\ pc' = "sp_set_at"
             /\ UNCHANGED <<result, error, spState>>
    /\ UNCHANGED <<offstage, args, exit_status, keyPrompt, store, access_token, refresh_token, depth,
                   written, lastGet, postLog, seen401, lastAnswer>>

\* mutant of SpSetAccess: the keyring's exception is not caught in
\* set_token_in_credential_manager and aborts send_profile
SpSetAccess_Uncaught ==
    /\ pc = "sp_set_at"
    /\ IF auth_response.access_token = Missing
       THEN /\ Raise("KeyError")
            /\ UNCHANGED <<store, calls, setLog>>
       ELSE /\ calls' = Count("sets")
            /\ \E ok \in BOOLEAN :
                  /\ store' = set_token_in_credential_manager(
                                  "AccessToken", auth_response.access_token, ok)
                  /\ setLog' = Append(setLog,
                                  <<"AccessToken", auth_response.access_token, ok>>)
                  /\ IF ok
                     THEN /\ pc' = "sp_set_rt"
                          /\ UNCHANGED <<result, error, spState>>
                     ELSE Raise("KeyringError")
    /\ UNCHANGED <<offstage, args, exit_status, keyPrompt, locals, depth, written, lastGet, postLog,
                   refreshLog, seen401, lastAnswer>>

\* set_token_in_credential_manager("AccessToken", auth_response['access_token'])
SpSetAccess ==
    /\ pc = "sp_set_at"
    /\ IF auth_response.access_token = Missing
       THEN /\ Raise("KeyError")
            /\ UNCHANGED <<store, calls, setLog>>
       ELSE /\ \E ok \in BOOLEAN :
                  /\ store' = set_token_in_credential_manager(
                                  "AccessToken", auth_response.access_token, ok)
                  /\ setLog' = Append(setLog,
                                  <<"AccessToken", auth_response.access_token, ok>>)
            /\ calls' = Count("sets")
            /\ pc' = "sp_set_rt"
            /\ UNCHANGED <<result, error, spState>>
    /\ UNCHANGED <<offstage, args, exit_status, keyPrompt, locals, depth, written, lastGet, postLog,
                   refreshLog, seen401, lastAnswer>>

\* mutant of SpSetRefresh: the new refresh token is not stored before the
\* retry
SpSetRefresh_Skip ==
    /\ pc = "sp_set_rt"
    /\ pc' = "sp_retry"
    /\ UNCHANGED <<offstage, args, exit_status, keyPrompt, store, locals, depth, written, result, error, spState,
                   history>>

\* set_token_in_credential_manager("RefreshToken", auth_response['refresh_token'])
SpSetRefresh ==
    /\ pc = "sp_set_rt"
    /\ IF auth_response.refresh_token = Missing
       THEN /\ Raise("KeyError")
            /\ UNCHANGED <<store, calls, setLog>>
       ELSE /\ \E ok \in BOOLEAN :
                  /\ store' = set_token_in_credential_manager(
                                  "RefreshToken", auth_response.refresh_token, ok)
                  /\ setLog' = Append(setLog,
                                  <<"RefreshToken", auth_response.refresh_token, ok>>)
            /\ calls' = Count("sets")
            /\ pc' = "sp_retry"
            /\ UNCHANGED <<result, error, spState>>
    /\ UNCHANGED <<offstage, args, exit_status, keyPrompt, locals, depth, written, lastGet, postLog,
                   refreshLog, seen401, lastAnswer>>

\* send_profile(auth_response['access_token'], profile): a new frame of the
\* same function, with no record of the attempt that came before it; the
\* interpreter raises RecursionError when the frames run out
SpRetry ==
    /\ pc = "sp_retry"
    /\ IF depth + 1 >= MaxDepth
       THEN /\ Raise("RecursionError")
            /\ UNCHANGED <<access_token, depth>>
       ELSE /\ access_token' = auth_response.access_token
            /\ depth' = depth + 1
            /\ pc' = "sp_post"
            /\ UNCHANGED <<result, error, spState>>
    /\ UNCHANGED <<offstage, args, exit_status, keyPrompt, store, refresh_token, auth_response, written,
                   history>>

(* --------------------------- __main__ ---------------------------------- *)

\* after new_profile returned: `if profile and not args.silent` waits for a
\* key; print_info("Exiting...") is the last statement, so the interpreter
\* ends the process with status 0 whatever new_profile returned
MainExit ==
    /\ pc = "done"
    /\ pc' = "exited"
    /\ keyPrompt' = (result = "profile" /\ ~args.silent)
    /\ exit_status' = 0
    /\ UNCHANGED <<offstage, args, store, locals, depth, written, result, error, spState,
                   history>>

(* ------------------------ specification -------------------------------- *)

Next ==
    \/ GetProfile
    \/ WriteProfile
    \/ GatGet
    \/ GatPrompt
    \/ GatLogin
    \/ GatSetAccess
    \/ GatSetRefresh
    \/ SpPost
    \/ Sp401
    \/ SpRefresh
    \/ SpSetAccess
    \/ SpSetRefresh
    \/ SpRetry
    \/ MainExit

Spec == Init /\ [][Next]_vars

TypeOK ==
    /\ pc \in {"np_get_profile", "np_write_profile", "gat_get", "gat_prompt",
               "gat_login", "gat_set_at", "gat_set_rt", "sp_post", "sp_401",
               "sp_refresh", "sp_set_at", "sp_set_rt", "sp_retry", "done",
               "exited"}
    /\ store \in [TokenTypes -> StoreValues]
    /\ access_token \in StoreValues
    /\ refresh_token \in StoreValues
    /\ auth_response \in Responses
    /\ depth \in 0..MaxDepth
    /\ spState \in {"idle", "running", "accepted", "failed"}

(* ------------------- the submission state machine ---------------------- *)

\* the submission attempt's state, read off the position of the run
Phase ==
    CASE spState = "idle"                      -> "Idle"
      [] spState = "accepted"                  -> "Accepted"
      [] spState = "failed"                    -> "Failed"
      [] pc = "sp_post" /\ depth = 0           -> "Sending"
      [] pc = "sp_post" /\ depth > 0           -> "Retrying"
      [] pc = "sp_401"                         -> "Rejected401"
      [] OTHER                                 -> "Refreshing"

\* the latest login/refresh response carries both tokens
BothFields ==
    /\ auth_response.access_token # Missing
    /\ auth_response.refresh_token # Missing

\* the set calls made since the latest login/refresh returned, without
\* their outcome
SetCalls == [i \in 1..Len(setLog) |-> <<setLog[i][1], setLog[i][2]>>]

\* every one of those set calls was accepted by the keyring
SetsAccepted == \A i \in 1..Len(setLog) : setLog[i][3]

\* a value the code treats as "no token": None or the empty string
NoToken(v) == v \in {None, EmptyStr}

\* the keyring holds a non-empty secret under token_type
Holds(token_type) == store[token_type] \in Tokens

(* ============================== claims ================================= *)

\* C1: one top-level send_profile call issues at most two POSTs to the
\* profile endpoint, whatever the service answers.
C1_AtMostTwoPosts == calls.posts <= 2

\* C2: one top-level send_profile call invokes refresh_access_token at most
\* once; a 401 answer to the retried POST triggers no further refresh.
C2_AtMostOneRefresh == calls.refreshes <= 1

\* C3: the submission follows Idle -> Sending -> {Accepted | Rejected401 ->
\* Refreshing -> Retrying -> {Accepted | Failed} | OtherError}: from
\* Retrying it only moves to a terminal state, never back to Rejected401.
C3_RetryIsTerminal ==
    [][Phase = "Retrying" => Phase' \in {"Retrying", "Accepted", "Failed"}]_vars

\* C4: when a POST is answered 401 and the store yields no RefreshToken
\* (absent, empty, or the read failed), send_profile fails on the spot: no
\* refresh call, no prompt, no login call, no store write and no further
\* POST are made, and the run ends there.
C4_NoRefreshWithoutToken ==
    [][/\ (pc = "sp_401" /\ NoToken(refresh_token'))
            => /\ pc' = "done"
               /\ spState' = "failed"
               /\ result' = "empty"
               /\ calls'.refreshes = calls.refreshes
               /\ calls'.logins = calls.logins
               /\ calls'.prompts = calls.prompts
               /\ calls'.sets = calls.sets
               /\ calls'.posts = calls.posts
               /\ store' = store
               /\ (seen401 = 1 => calls'.refreshes = 0 /\ calls'.posts = 1)
       /\ (pc \in {"done", "exited"}
             => pc' \in {"done", "exited"} /\ calls' = calls /\ store' = store)
      ]_vars

C4_Witness ==
    /\ pc = "done"
    /\ error = "HTTPError401"
    /\ seen401 = 1
    /\ calls.refreshes = 0
    /\ lastGet = <<"RefreshToken", TRUE>>
    /\ store["RefreshToken"] = EmptyStr

C6_BothTokensPersisted ==
    /\ Len(setLog) <= 2
    /\ (pc \in {"gat_set_at", "sp_set_at"} => setLog = <<>>)
    /\ (pc \in {"gat_set_rt", "sp_set_rt"}
          => SetCalls = << <<"AccessToken", auth_response.access_token>> >>)
    /\ (pc \notin {"gat_set_at", "sp_set_at", "gat_set_rt", "sp_set_rt"} /\ BothFields
          => SetCalls = << <<"AccessToken", auth_response.access_token>>,
                           <<"RefreshToken", auth_response.refresh_token>> >>)

C6_Witness ==
    /\ pc = "sp_retry"
    /\ calls.logins = 1
    /\ calls.refreshes = 1
    /\ calls.sets = 4
    /\ BothFields

C9_PostsCarryRefreshedToken ==
    \A i \in 1..Len(refreshLog) :
        \A j \in 1..Len(postLog) :
            j > i => postLog[j] = refreshLog[i]

\* C10: every POST is issued only after each login and refresh call made
\* so far has returned and both set calls for its tokens have been made; the
\* POST carries the access token of the latest such response.
C10_PostAfterPersist ==
    [][calls'.posts = calls.posts + 1
         => /\ calls.sets = 2 * (calls.logins + calls.refreshes)
            /\ (calls.logins + calls.refreshes > 0
                  => /\ Len(setLog) = 2
                     /\ access_token = auth_response.access_token)
      ]_vars

C10_Witness ==
    /\ calls.posts = 2
    /\ calls.logins = 1
    /\ calls.refreshes = 1
    /\ calls.sets = 4

\* C11: when a POST fails with a non-401 HTTP status or a transport error,
\* send_profile fails immediately: no refresh call, no further POST, no
\* store read and no store write follow, and the stored tokens stay as
\* they were.
C11_OtherErrorIsFinal ==
    [][/\ (calls'.posts = calls.posts + 1
             /\ lastAnswer' \in {"httpOther", "transport"})
            => /\ pc' = "done"
               /\ spState' = "failed"
               /\ result' = "empty"
               /\ error' \in {"HTTPError", "URLError"}
               /\ calls' = [calls EXCEPT !.posts = @ + 1]
               /\ store' = store
       /\ (spState = "failed" => calls' = calls /\ store' = store)
      ]_vars

C11_Witness ==
    /\ pc = "done"
    /\ error = "HTTPError"
    /\ spState = "failed"
    /\ calls.posts = 2
    /\ calls.refreshes = 1

\* C12: in a run with --send and --silent and no cached AccessToken, the
\* credential prompt is never reached and no login call is made.
C12_SilentNeverPrompts ==
    (args.send /\ args.silent) => (calls.prompts = 0 /\ calls.logins = 0)

\* C13: when login, refresh or submission fails during a --send run, the
\* process terminates with a non-zero exit status.
C13_FailureExitsNonZero ==
    (pc = "exited" /\ args.send
       /\ error \in {"LoginFailed", "RefreshFailed", "HTTPError", "HTTPError401",
                     "URLError", "KeyError", "RecursionError"})
        => exit_status # 0

SetFailedNow == calls'.sets = calls.sets + 1 /\ ~setLog'[Len(setLog')][3]

GatFailed ==
    /\ args.send
    /\ calls.gets >= 1
    /\ spState = "idle"
    /\ pc \in {"done", "exited"}

\* C17: get_access_token fails only when it attempted a login and that
\* login failed (the call raised, or its response is unusable); then no
\* store write has taken effect and no POST is issued in that run.
C17_LoginFailureWritesNothing ==
    GatFailed
        => /\ calls.logins = 1
           /\ error \in {"LoginFailed", "KeyError"}
           /\ (\A i \in 1..Len(setLog) : ~setLog[i][3])
           /\ calls.posts = 0

\* the refresh call made in this step raised
RefreshFailedNow ==
    /\ calls'.refreshes = calls.refreshes + 1
    /\ refreshLog' = refreshLog

\* C18: when the refresh call made on a 401 fails, the submission ends in
\* failure on the spot: no further refresh call, no retry POST and no store
\* write follow, and the stored tokens stay as they were.
C18_RefreshFailureIsFinal ==
    [][/\ RefreshFailedNow
            => /\ pc' = "done"
               /\ spState' = "failed"
               /\ result' = "empty"
               /\ error' = "RefreshFailed"
               /\ calls' = [calls EXCEPT !.refreshes = @ + 1]
               /\ store' = store
               /\ postLog' = postLog
       /\ (error = "RefreshFailed"
             => /\ calls' = calls
                /\ store' = store
                /\ error' = error
                /\ spState' = "failed")
      ]_vars

C18_Witness ==
    /\ pc = "exited"
    /\ error = "RefreshFailed"
    /\ spState = "failed"
    /\ calls.refreshes = 1
    /\ calls.posts = 1
    /\ calls.sets = 0

\* C19: in a run without --send the store is neither read nor written, no
\* credentials are asked for, no login or refresh call and no POST is made;
\* the run only collects the profile and writes it locally.
C19_SendIsOptIn ==
    [][~args.send
         => /\ calls' = NoCalls
            /\ store' = store
            /\ postLog' = <<>>
            /\ setLog' = <<>>
            /\ refreshLog' = <<>>
            /\ spState' = "idle"
            /\ pc' \in {"np_get_profile", "np_write_profile", "done", "exited"}
      ]_vars

C19_Witness ==
    /\ ~args.send
    /\ pc = "exited"
    /\ result = "profile"
    /\ written
    /\ \E t \in TokenTypes : Holds(t)

\* the field of the current login/refresh response that belongs to an entry
ResponseToken(token_type) ==
    IF token_type = "AccessToken" THEN auth_response.access_token
                                  ELSE auth_response.refresh_token

\* C20: no step deletes a stored secret: an entry that is present stays
\* present, an entry that holds a token keeps holding one, and an entry
\* changes only in a store write step, to the token of the login or refresh
\* response at hand.
C20_NeverDeletes ==
    [][\A t \in TokenTypes :
          /\ store[t] # None => store'[t] # None
          /\ store[t] \in Tokens => store'[t] \in Tokens
          /\ store'[t] # store[t]
                => /\ calls'.sets = calls.sets + 1
                   /\ calls.logins + calls.refreshes >= 1
                   /\ auth_response # NoResponse
                   /\ auth_response' = auth_response
                   /\ store'[t] \in Tokens
                   /\ store'[t] = ResponseToken(t)
      ]_vars

\* after a refresh the AccessToken write was refused and the entry still holds
\* its old token, while the RefreshToken entry was overwritten by a new value
C20_Witness ==
    /\ calls.refreshes = 1
    /\ Len(setLog) = 2
    /\ ~setLog[1][3]
    /\ store["AccessToken"] \in Tokens
    /\ store["AccessToken"] # auth_response.access_token
    /\ setLog[2][3]
    /\ refresh_token \in Tokens
    /\ store["RefreshToken"] # refresh_token
    /\ store["RefreshToken"] = auth_response.refresh_token

\* the refresh network call is made in this step
RefreshCalledNow == calls'.refreshes = calls.refreshes + 1

\* C23: a refresh call is made only in reaction to a 401 answer to a
\* submission POST: the submission is running, its latest POST (and every
\* POST before it) was answered 401, only the RefreshToken read lies between
\* that answer and the call, and each 401 is reacted to by one call at most.
C23_RefreshOnlyOn401 ==
    [][RefreshCalledNow
         => /\ spState = "running"
            /\ lastAnswer = "http401"
            /\ calls.posts >= 1
            /\ seen401 = calls.posts
            /\ calls.refreshes = calls.posts - 1
            /\ lastGet[1] = "RefreshToken"
            /\ postLog' = postLog
      ]_vars

\* the refresh that reacts to the 401 answer to a retried POST
C23_Witness ==
    /\ pc = "sp_set_at"
    /\ calls.refreshes = 2
    /\ calls.posts = 2
    /\ lastAnswer = "http401"

\* C24: one agent run prompts for credentials and issues the login call at
\* most once each; a failed login ends the run without another attempt; and
\* once the submission has started, whatever the answers to its POSTs, no
\* login call and no prompt is made.
C24_LoginAtMostOnce ==
    [][/\ calls'.logins <= 1
       /\ calls'.prompts <= 1
       /\ (error = "LoginFailed"
             => /\ calls' = calls
                /\ pc' \in {"done", "exited"}
                /\ spState' = "idle")
       /\ (spState # "idle" \/ calls.posts >= 1
             => /\ calls'.logins = calls.logins
                /\ calls'.prompts = calls.prompts)
      ]_vars

\* a 401 after a login, with no refresh token to use: the run ends with the
\* one login it made
C24_Witness ==
    /\ pc = "exited"
    /\ error = "HTTPError401"
    /\ calls.logins = 1
    /\ calls.prompts = 1
    /\ calls.posts = 1
    /\ calls.refreshes = 0

\* the run is between two agent operations, or over
BetweenOperations == pc \in {"sp_post", "done", "exited"}

\* C25: between agent operations, once a write of the latest login/refresh
\* response has gone into the store, the store holds both tokens of that
\* response: never the access token of one response next to the refresh
\* token of another, or one of the two alone.
C25_TokensFromOneResponse ==
    (BetweenOperations /\ \E i \in 1..Len(setLog) : setLog[i][3])
        => /\ store["AccessToken"] = auth_response.access_token
           /\ store["RefreshToken"] = auth_response.refresh_token

\* what get_access_token returns in a later run that starts from the store
\* as it is now: the stored AccessToken when the read yields a token, and
\* otherwise (None here) the token of a fresh login
LaterRunAccessToken(ok) ==
    LET v == get_token_from_credential_manager("AccessToken", ok)
    IN  IF Truthy(v) THEN v ELSE None

\* C26: once a run in which a refresh succeeded is over, a later run's
\* get_access_token does not return the access token that the refresh
\* superseded (the one whose POST was answered 401), also when the write of
\* the new AccessToken failed.
C26_SupersededNotReturned ==
    (pc = "exited" /\ refreshLog # <<>>)
        => LET n == Len(refreshLog)
               old == postLog[n]
               new == refreshLog[n]
           IN  (new \in Tokens /\ new # old /\ auth_response.refresh_token \in Tokens)
                  => \A ok \in BOOLEAN : LaterRunAccessToken(ok) # old

\* C27 (as claimed): new_profile returns the profile only when every step
\* it attempted succeeded, the local file write and the store writes among
\* them.
C27_ProfileIffAllStepsOk ==
    (pc = "done" /\ result = "profile")
        => /\ written
           /\ \A i \in 1..Len(setLog) : setLog[i][3]

\* C27: new_profile never raises: it returns {} exactly when an exception
\* reached it (from collection, from write_profile's directory step, from
\* login or from submission) and the collected profile otherwise, which with
\* --send means after an accepted POST; what write_profile and the store
\* helpers swallow does not change the return value; and a profile file
\* once written stays written whatever fails later.
C27_NeverRaises ==
    [][/\ (pc' = "done"
             => /\ result' \in {"profile", "empty"}
                /\ (result' = "empty" <=> error' # "none")
                /\ (result' = "profile" /\ args.send => spState' = "accepted")
                /\ (result' = "profile" /\ ~args.send => spState' = "idle"))
       /\ (pc' # "done" /\ pc' # "exited" => result' = "none" /\ error' = "none")
       /\ (pc = "done" => result' = result /\ error' = error)
       /\ (written => written')
      ]_vars

\* the login failed after the profile file had been written: {} is
\* returned and the file is still there
C27_Witness ==
    /\ pc = "done"
    /\ result = "empty"
    /\ error = "LoginFailed"
    /\ written

(* ------------------ the request built by send_profile ------------------ *)

\* number of distinct leaf values a profile entry can take
NumValues == 2

\* number of separate top-level send_profile calls made with one profile
MaxCalls == 2

\* top-level keys of the dict built by get_profile
ProfileKeys == {"hwid", "hostname", "os"}

ProfileValues == 1..NumValues

\* a dict as Python keeps it: its items in insertion order, keys distinct
Profiles ==
    {p \in UNION {[1..n -> ProfileKeys \X ProfileValues] : n \in 0..Cardinality(ProfileKeys)} :
        \A i, j \in 1..Len(p) : i # j => p[i][1] # p[j][1]}

RECURSIVE DumpItems(_)
\* the items of a dict as json.dumps writes them with sort_keys=False: in
\* the dict's own order, "key": value, separated by commas
DumpItems(items) ==
    IF items = <<>> THEN <<>>
    ELSE <<items[1][1], ":", items[1][2]>>
         \o (IF Len(items) > 1 THEN <<",">> ELSE <<>>)
         \o DumpItems(Tail(items))

\* json.dumps(profile, sort_keys=False, indent=4).encode('utf-8')
JsonDumps(p) == <<"{">> \o DumpItems(p) \o <<"}">>

SerInit ==
    /\ AgentIdle
    /\ KeyIdle
    /\ SvcIdle
    /\ ser_pc = "post"
    /\ profile \in Profiles
    /\ ser_token \in Tokens
    /\ ser_depth = 0
    /\ ser_call = 1
    /\ bodies = <<>>
    /\ auths = {}

\* profile_data = json.dumps(...); request headers; urlopen(profile_request,
\* profile_data): the body goes out with the call's bearer token
SerPost ==
    /\ ser_pc = "post"
    /\ bodies' = Append(bodies, JsonDumps(profile))
    /\ auths' = auths \cup {ser_token}
    /\ \E answer \in PostAnswers :
          ser_pc' = IF answer = "http401" THEN "retry" ELSE "returned"
    /\ UNCHANGED <<agent, keyVars, svcVars, profile, ser_token, ser_depth, ser_call>>

\* mutant of SerRetry: the retry collects the profile anew
SerRetry_Recollect ==
    /\ ser_pc = "retry"
    /\ \/ /\ ser_pc' = "returned"
          /\ UNCHANGED <<profile, ser_token, ser_depth>>
       \/ /\ ser_depth + 1 < MaxDepth
          /\ \E t \in Tokens : ser_token' = t
          /\ \E p \in Profiles : profile' = p
          /\ ser_depth' = ser_depth + 1
          /\ ser_pc' = "post"
    /\ UNCHANGED <<agent, keyVars, svcVars, ser_call, bodies, auths>>

\* the 401 handler: the refresh fails (or the frame limit is hit) and the
\* call ends, or send_profile(auth_response['access_token'], profile) is
\* called with the refreshed token and the same profile object
SerRetry ==
    /\ ser_pc = "retry"
    /\ \/ /\ ser_pc' = "returned"
          /\ UNCHANGED <<profile, ser_token, ser_depth>>
       \/ /\ ser_depth + 1 < MaxDepth
          /\ \E t \in Tokens : ser_token' = t
          /\ ser_depth' = ser_depth + 1
          /\ ser_pc' = "post"
          /\ UNCHANGED profile
    /\ UNCHANGED <<agent, keyVars, svcVars, ser_call, bodies, auths>>

\* a separate send_profile call with the same profile and some token
SerCallAgain ==
    /\ ser_pc = "returned"
    /\ ser_call < MaxCalls
    /\ ser_call' = ser_call + 1
    /\ \E t \in Tokens : ser_token' = t
    /\ ser_depth' = 0
    /\ ser_pc' = "post"
    /\ UNCHANGED <<agent, keyVars, svcVars, profile, bodies, auths>>

SerNext ==
    \/ SerPost
    \/ SerRetry
    \/ SerCallAgain

SerSpec == SerInit /\ [][SerNext]_vars

SERVICE_NAME == "ProspectorService"
CREDENTIAL_SERVICE_NAME == "ProspectorDeviceProfilingService"

\* mutant of KeyMain: one account name for every token type
KeyMain_OneAccount(token_type) == <<<<SERVICE_NAME>>, "Token">>

\* main.py: keyring entry (SERVICE_NAME, token_type)
KeyMain(token_type) == <<<<SERVICE_NAME>>, token_type>>

\* app/auth_handler.py: keyring entry (f"{CREDENTIAL_SERVICE_NAME}/{token_type}", token_type)
KeyApp(token_type) == <<<<CREDENTIAL_SERVICE_NAME, "/", token_type>>, token_type>>

\* keyring.get_password(service, username): None for an entry never set
get_password(entry) ==
    IF entry \in DOMAIN keyring THEN keyring[entry] ELSE None

\* keyring.set_password(service, username, password) applied to a keyring
set_password(kr, entry, password) ==
    [e \in DOMAIN kr \cup {entry} |-> IF e = entry THEN password ELSE kr[e]]

\* get_token_from_credential_manager of each variant (None when keyring raises)
GetMain(token_type, ok) == IF ok THEN get_password(KeyMain(token_type)) ELSE None
GetApp(token_type, ok) == IF ok THEN get_password(KeyApp(token_type)) ELSE None

\* both variants start from the same contents, each under its own entries
KeyInit ==
    /\ AgentIdle
    /\ SerIdle
    /\ SvcIdle
    /\ \E s0 \in [TokenTypes -> StoreValues] :
          keyring = [e \in {KeyMain(t) : t \in TokenTypes} \cup {KeyApp(t) : t \in TokenTypes} |->
                        s0[CHOOSE t \in TokenTypes : e \in {KeyMain(t), KeyApp(t)}]]
    /\ got_main = None
    /\ got_app = None
    /\ key_call = <<"none", "none", None, TRUE>>

\* get_token_from_credential_manager(token_type), through both variants
KeyGet ==
    \E t \in TokenTypes, ok \in BOOLEAN :
        /\ got_main' = GetMain(t, ok)
        /\ got_app' = GetApp(t, ok)
        /\ key_call' = <<"get", t, None, ok>>
        /\ UNCHANGED <<agent, serVars, svcVars, keyring>>

\* set_token_in_credential_manager(token_type, token), through both
\* variants; a keyring failure is swallowed by either
KeySet ==
    \E t \in TokenTypes, token \in Tokens, ok \in BOOLEAN :
        /\ keyring' = IF ok
                      THEN set_password(set_password(keyring, KeyMain(t), token),
                                        KeyApp(t), token)
                      ELSE keyring
        /\ key_call' = <<"set", t, token, ok>>
        /\ UNCHANGED <<agent, serVars, svcVars, got_main, got_app>>

KeyNext ==
    \/ KeyGet
    \/ KeySet

KeySpec == KeyInit /\ [][KeyNext]_vars

\* C22: over any sequence of get/set calls the two keying schemes return
\* the same values, and a set of one token type leaves the value read for
\* the other type as it was, in either scheme.
C22_SchemesEquivalent ==
    [][/\ got_main' = got_app'
       /\ \A t \in TokenTypes : GetMain(t, TRUE)' = GetApp(t, TRUE)'
       /\ \A t, u \in TokenTypes :
             (key_call'[1] = "set" /\ key_call'[2] = t /\ u # t)
                => /\ GetMain(u, TRUE)' = GetMain(u, TRUE)
                   /\ GetApp(u, TRUE)' = GetApp(u, TRUE)
      ]_vars

\* a RefreshToken set went through while the AccessToken entry holds another
\* token, and the latest read returned a token
C22_Witness ==
    /\ key_call = <<"set", "RefreshToken", 2, TRUE>>
    /\ GetMain("AccessToken", TRUE) = 1
    /\ GetApp("RefreshToken", TRUE) = 2
    /\ got_main = 1

(* ------------- the background service (prospectservice.py) ------------- *)

\* profile_device calls are counted up to this number
MaxCounted == 2

\* outcomes of urlopen in ProspectService.send_profile
SvcAnswers == {"ok", "httpError", "transport"}

\* positions of run() inside its while loop
InLoop == {"check", "sleep", "profile", "send"}

SvcInit ==
    /\ AgentIdle
    /\ SerIdle
    /\ KeyIdle
    /\ SvcIdle

\* SvcDoRun: ReportServiceStatus(SERVICE_START_PENDING);
\* self.service_impl = ProspectService()
SvcDoRunBegin ==
    /\ w_pc = "start"
    /\ svc_status' = "START_PENDING"
    /\ w_pc' = "report_running"
    /\ UNCHANGED <<agent, serVars, keyVars, c_pc, running, stop_called, stop_in_loop,
                   cycles_after_stop, cycle_posts, svc_answer>>

\* SvcDoRun: ReportServiceStatus(SERVICE_RUNNING); from here on the service
\* control manager delivers stop requests. The report is not repeated once
\* SvcStop has reported for its part.
SvcReportRunning ==
    /\ w_pc = "report_running"
    /\ svc_status' = "RUNNING"
    /\ w_pc' = "run"
    /\ UNCHANGED <<agent, serVars, keyVars, c_pc, running, stop_called, stop_in_loop,
                   cycles_after_stop, cycle_posts, svc_answer>>

\* run(): self.running = True
RunAssign ==
    /\ w_pc = "run"
    /\ running' = "True"
    /\ w_pc' = "check"
    /\ UNCHANGED <<agent, serVars, keyVars, c_pc, svc_status, stop_called, stop_in_loop,
                   cycles_after_stop, cycle_posts, svc_answer>>

\* run(): `while self.running`
RunCheck ==
    /\ w_pc = "check"
    /\ w_pc' = IF running = "True" THEN "sleep" ELSE "returned"
    /\ UNCHANGED <<agent, serVars, keyVars, c_pc, running, svc_status, stop_called,
                   stop_in_loop, cycles_after_stop, cycle_posts, svc_answer>>

\* run(): time.sleep(300)
RunSleep ==
    /\ w_pc = "sleep"
    /\ w_pc' = "profile"
    /\ cycle_posts' = 0
    /\ UNCHANGED <<agent, serVars, keyVars, c_pc, running, svc_status, stop_called,
                   stop_in_loop, cycles_after_stop, svc_answer>>

\* profile_device(): get_profile, print, write_profile, log_profile_event;
\* none of them is guarded, so an exception of theirs leaves run()
ProfileDevice ==
    /\ w_pc = "profile"
    /\ cycles_after_stop' = IF stop_called /\ cycles_after_stop < MaxCounted
                            THEN cycles_after_stop + 1 ELSE cycles_after_stop
    /\ \E ok \in BOOLEAN : w_pc' = IF ok THEN "send" ELSE "crashed"
    /\ UNCHANGED <<agent, serVars, keyVars, c_pc, running, svc_status, stop_called,
                   stop_in_loop, cycle_posts, svc_answer>>

\* mutant of SvcSendProfile: a failing POST is not swallowed and leaves run()
SvcSendProfile_Raises ==
    /\ w_pc = "send"
    /\ cycle_posts' = cycle_posts + 1
    /\ \E answer \in SvcAnswers :
          /\ svc_answer' = answer
          /\ w_pc' = IF answer = "ok" THEN "check" ELSE "crashed"
    /\ UNCHANGED <<agent, serVars, keyVars, c_pc, running, svc_status, stop_called,
                   stop_in_loop, cycles_after_stop>>

\* ProspectService.send_profile(profile): one urlopen inside try / bare
\* except, which only logs a warning; then back to the loop test
SvcSendProfile ==
    /\ w_pc = "send"
    /\ cycle_posts' = cycle_posts + 1
    /\ \E answer \in SvcAnswers : svc_answer' = answer
    /\ w_pc' = "check"
    /\ UNCHANGED <<agent, serVars, keyVars, c_pc, running, svc_status, stop_called,
                   stop_in_loop, cycles_after_stop>>

\* SvcStop: ReportServiceStatus(SERVICE_STOP_PENDING); a stop request
\* reaches a service that has reported SERVICE_RUNNING
SvcStopBegin ==
    /\ c_pc = "idle"
    /\ svc_status = "RUNNING"
    /\ svc_status' = "STOP_PENDING"
    /\ c_pc' = "stop"
    /\ UNCHANGED <<agent, serVars, keyVars, w_pc, running, stop_called, stop_in_loop,
                   cycles_after_stop, cycle_posts, svc_answer>>

\* mutant of SvcStopCall: stop() leaves the flag as it is
SvcStopCall_NoEffect ==
    /\ c_pc = "stop"
    /\ stop_called' = TRUE
    /\ stop_in_loop' = (w_pc \in InLoop)
    /\ c_pc' = "report"
    /\ UNCHANGED <<agent, serVars, keyVars, w_pc, running, svc_status, cycles_after_stop,
                   cycle_posts, svc_answer>>

\* SvcStop: self.service_impl.stop(), which is self.running = False
SvcStopCall ==
    /\ c_pc = "stop"
    /\ running' = "False"
    /\ stop_called' = TRUE
    /\ stop_in_loop' = (w_pc \in InLoop)
    /\ c_pc' = "report"
    /\ UNCHANGED <<agent, serVars, keyVars, w_pc, svc_status, cycles_after_stop,
                   cycle_posts, svc_answer>>

\* SvcStop: ReportServiceStatus(SERVICE_STOPPED)
SvcStopReport ==
    /\ c_pc = "report"
    /\ svc_status' = "STOPPED"
    /\ c_pc' = "done"
    /\ UNCHANGED <<agent, serVars, keyVars, w_pc, running, stop_called, stop_in_loop,
                   cycles_after_stop, cycle_posts, svc_answer>>

\* the worker thread: SvcDoRun and what it calls
SvcWorker ==
    \/ SvcDoRunBegin
    \/ SvcReportRunning
    \/ RunAssign
    \/ RunCheck
    \/ RunSleep
    \/ ProfileDevice
    \/ SvcSendProfile

\* the control thread: SvcStop
SvcControl ==
    \/ SvcStopBegin
    \/ SvcStopCall
    \/ SvcStopReport

SvcNext ==
    \/ SvcWorker
    \/ SvcControl

SvcSpec == SvcInit /\ [][SvcNext]_vars

\* the worker thread is scheduled as long as it has a step to take: sleeps
\* end and calls return
SvcLive == SvcSpec /\ WF_vars(SvcWorker)

\* the worker thread is through with run(), by return or by exception
RunEnded == w_pc \in {"returned", "crashed"}

\* C28: in every interleaving of SvcStop/stop() with SvcDoRun/run(), once
\* stop() has been called run() eventually ends.
C28_StopNeverLost == stop_called ~> RunEnded

\* C29: when stop() is executed while run() is in its loop, at most one
\* more profile_device call is begun (the cycle whose sleep or work was under
\* way); then run() returns and no further cycle collects or sends anything.
C29_AtMostOneCycleAfterStop ==
    [][/\ stop_in_loop' => cycles_after_stop' <= 1
       /\ (stop_in_loop /\ w_pc = "check" /\ w_pc' # w_pc) => w_pc' = "returned"
       /\ (stop_in_loop /\ w_pc = "returned")
             => /\ w_pc' = "returned"
                /\ cycle_posts' = cycle_posts
                /\ cycles_after_stop' = cycles_after_stop
      ]_vars

\* stop() came during a cycle's sleep; that cycle ran, and run() returned
C29_Witness ==
    /\ stop_in_loop
    /\ cycles_after_stop = 1
    /\ cycle_posts = 1
    /\ w_pc = "returned"

\* a POST is made in this step and fails
SvcPostFailedNow ==
    /\ cycle_posts' = cycle_posts + 1
    /\ svc_answer' # "ok"

\* C30: a failing submission inside profile_device neither ends the run loop
\* nor is retried: each cycle makes one POST, its failure is swallowed, and
\* the loop goes on to its test and, with running still true, to the next
\* cycle.
C30_SendFailureSwallowed ==
    [][/\ SvcPostFailedNow => (w_pc = "send" /\ w_pc' = "check")
       /\ cycle_posts' <= 1
       /\ (w_pc' = "check" /\ w_pc = "send") => cycle_posts' = 1
       /\ (w_pc = "check" /\ svc_answer # "ok" /\ running = "True" /\ w_pc' # w_pc)
             => w_pc' = "sleep"
      ]_vars

\* a cycle is under way after the POST of the one before it failed
C30_Witness ==
    /\ svc_answer = "transport"
    /\ w_pc = "profile"
    /\ cycle_posts = 0
    /\ running = "True"

====
